---- MODULE Spec2Model ----
(***************************************************************************)
(* Movie watchlist application (Express + Supabase).                       *)
(*                                                                         *)
(* State: the `movies` table of the record store, the session store, and   *)
(* the requests in flight.  Every await of a handler is one step, so       *)
(* requests of different sessions (or server instances) interleave at the  *)
(* await points.  Every store call may fail (error object or exception).   *)
(*                                                                         *)
(* Spec      requests enter through the middleware chain of app.js         *)
(*           (csurf, authentication wall, router), one request at a time.  *)
(* SpecCtl   the controller functions are invoked directly with a request  *)
(*           whose session may carry no user (the component boundary).     *)
(* SpecRace  two handlers run concurrently and interleave at every await.  *)
(***************************************************************************)
EXTENDS Integers, FiniteSets, Sequences, TLC

(* ---------------- bounds ---------------- *)
MaxMovies == 1

Users == {"u1", "u2"}
Sess == {"s1", "s2"}
Procs == {"p1", "p2"}
Ids == 1..MaxMovies

None == "none"      \* null / undefined (strings, users)
Absent == -1        \* null / undefined (numbers)
Today == "today"

(* request inputs *)
DesireIn == {Absent, 0, 1, 5, 6}
CredIn == Users \cup {None, "bad"}
(* further login credentials: a known e-mail with the wrong password, the
   e-mail of a sign-up *)
RejectedCredIn == {"wrongpw", "new"}
(* e-mail and password fields of the register and settings forms *)
EmailIn == {None, "new", "u1"}
PasswordIn == {None, "short", "ok", "mismatch"}
(* rating / review pairs of a request body *)
ReviewBodies == {<<Absent, None>>, <<4, None>>, <<Absent, "r">>, <<6, None>>}

(* csurf binds one secret to each session; a token is derived from a secret *)
CsrfSecret(s) == s

(* strings whose characters matter are sequences of one-character strings *)
NoText == [given |-> FALSE, text |-> <<>>]
Text(t) == [given |-> TRUE, text |-> t]
(* req.query.query: missing, empty, blank, or a title *)
QueryIn == {NoText, Text(<<>>), Text(<<" ">>), Text(<<" ", " ">>),
            Text(<<"m">>), Text(<<" ", "m">>)}
(* req.params.tmdbId: a route parameter is never empty *)
TmdbIdIn == {Text(<<"6">>), Text(<<"6", "0">>), Text(<<"a">>),
             Text(<<"6", "a">>), Text(<<"6", ".", "6">>), Text(<<"-", "6">>),
             Text(<<" ">>)}
(* process.env.TMDB_API_KEY: unset, the placeholder of .env.example, a key *)
Placeholder == "your_tmdb_api_key_here"
KeyIn == {None, Placeholder, "k1", "k2"}
(* what the external service does with one call *)
UpstreamIn == {"ok", "404", "429", "500", "network", "badjson"}
TokenIn == {None, "forged"} \cup {CsrfSecret(s) : s \in Sess}

(* routes of the external movie database (apiController) *)
MetaOps == {"searchMovies", "getMovieDetails", "getPopularMovies"}

GetOps == {"getMovies", "getWatchedMovies", "getLogin"} \cup MetaOps
ApiOps == {"getMovies", "getWatchedMovies", "addMovie", "markAsWatched",
           "removeMovie", "removeWatchedMovie", "updateReview"}
LoginOps == {"getLogin", "postLogin", "postLogout"}
AcctOps == {"postRegister", "postUpdateEmail", "postUpdatePassword",
            "postDeleteAccount"}
UserOps == LoginOps \cup AcctOps
(* the watchlist and login routes *)
Ops == ApiOps \cup LoginOps
IdOps == {"markAsWatched", "removeMovie", "removeWatchedMovie", "updateReview"}

VARIABLES movies, nextId, session, req, mwApplied, createdBy,
          identity, unverified, client, profile, TMDB_API_KEY

(* identity backend (accounts, unverified sign-ups), the auth context of the
   one supabase client shared by all requests, and the table users *)
acctVars == <<identity, unverified, client, profile>>

vars == <<movies, nextId, session, req, mwApplied, createdBy, acctVars,
          TMDB_API_KEY>>

(* ---------------- record store: table movies ---------------- *)
BlankRow == [present |-> FALSE, owner |-> None, watched |-> FALSE,
             watchedDate |-> None, rating |-> Absent, review |-> None,
             desireScale |-> Absent]

(* CHECK (desire_scale >= 1 AND desire_scale <= 5); NULL passes a CHECK *)
DesireCheck(ds) == ds = Absent \/ (ds >= 1 /\ ds <= 5)

(* CHECK (rating >= 1 AND rating <= 5) *)
RatingCheck(rt) == rt = Absent \/ (rt >= 1 /\ rt <= 5)

(* .eq('id', id).eq('user_id', userId)[.eq('watched', w)] *)
Match(tbl, id, uid) ==
    {m \in Ids : tbl[m].present /\ m = id /\ tbl[m].owner = uid}

MatchWatched(tbl, id, uid, w) ==
    {m \in Match(tbl, id, uid) : tbl[m].watched = w}

(* .select('*').eq('user_id', userId).eq('watched', w) *)
SelectRows(tbl, uid, w) ==
    {m \in Ids : tbl[m].present /\ tbl[m].owner = uid /\ tbl[m].watched = w}

(* ids of the in-memory sample movies *)
fallbackWatchlistMovies == {1, 2}
fallbackWatchedMovies == {101}

(* ---------------- requests ---------------- *)
IdleReq == [op |-> None, pc |-> "idle", sess |-> None, user |-> None,
            id |-> 0, rating |-> Absent, review |-> None,
            title |-> FALSE, genre |-> FALSE, desireScale |-> Absent,
            cred |-> None, tok |-> None, resp |-> 0, ran |-> FALSE,
            result |-> {}, fromStore |-> TRUE, err |-> FALSE, warn |-> FALSE,
            startUnw |-> FALSE, tgt |-> None, created |-> 0,
            email |-> None, pw |-> None, token |-> None, msg |-> None,
            upd |-> FALSE, retWatched |-> FALSE, retRating |-> Absent,
            retReview |-> None,
            query |-> NoText, tmdbId |-> NoText, calls |-> 0,
            upstream |-> None,
            url |-> [path |-> None, api_key |-> None],
            body |-> [error |-> None, data |-> None],
            logged |-> [message |-> None, api_key |-> None]]

(* movieController.getUserId: req.session?.user?.id || null *)
getUserId(s) == session[s].user

Inc(n) == IF n < 2 THEN n + 1 ELSE n

(* JavaScript truthiness of a numeric input: undefined, null and 0 are falsy *)
Truthy(n) == n # Absent /\ n # 0

(* ---------------- sessions and accounts ---------------- *)
(* the e-mail address a user registered with *)
Email(u) == u

(* a session entry without req.session.user and req.session.supabaseSession *)
AnonSession == [user |-> None, email |-> None, token |-> None,
                tokenLive |-> FALSE]

(* ---------------- initial state ---------------- *)
InitWith(keys) ==
    /\ movies = [m \in Ids |-> BlankRow]
    /\ nextId = 1
    /\ session = [s \in Sess |-> AnonSession]
    /\ req = [p \in Procs |-> IdleReq]
    /\ mwApplied = [m \in Ids |-> 0]
    /\ createdBy = [m \in Ids |-> None]
    /\ identity = [u \in Users |-> [present |-> TRUE, email |-> Email(u),
                                     password |-> "old"]]
    /\ unverified = {}
    /\ client = None
    /\ profile = [u \in Users |-> [present |-> TRUE, email |-> Email(u)]]
    /\ TMDB_API_KEY \in keys

Init == InitWith({"k1"})
(* the deployment may have any setting of the key *)
InitMeta == InitWith(KeyIn)

(* a response has been sent *)
Respond(r, code) == [r EXCEPT !.pc = "done", !.resp = code]

(* tokens are read only on the routes csurf checks *)
Tokens(op) == IF op \in ApiOps \/ op \in GetOps THEN {None} ELSE TokenIn

(* the request bodies a client can send to each route *)
Bodies(op) ==
    [id : IF op \in IdOps THEN Ids ELSE {0},
     rr : IF op \in {"markAsWatched", "updateReview"} THEN ReviewBodies
          ELSE {<<Absent, None>>},
     title : IF op = "addMovie" THEN BOOLEAN ELSE {FALSE},
     genre : IF op = "addMovie" THEN BOOLEAN ELSE {FALSE},
     desireScale : IF op = "addMovie" THEN DesireIn ELSE {Absent},
     cred : IF op = "postLogin" THEN CredIn ELSE {None},
     email : IF op \in {"postRegister", "postUpdateEmail"} THEN EmailIn
             ELSE {None},
     pw : IF op = "postUpdatePassword" THEN PasswordIn
          ELSE IF op = "postRegister" THEN PasswordIn \ {"mismatch"}
          ELSE {None},
     tok : Tokens(op),
     query : IF op = "searchMovies" THEN QueryIn ELSE {NoText},
     tmdbId : IF op = "getMovieDetails" THEN TmdbIdIn ELSE {NoText}]

(* the login form with every kind of credentials *)
LoginBodies ==
    {[b EXCEPT !.cred = c] : b \in Bodies("postLogin"),
                             c \in CredIn \cup RejectedCredIn}

AcctBodies(op) == IF op = "postLogin" THEN LoginBodies ELSE Bodies(op)

(* the state of the row a request names, as seen by a caller *)
Target(tbl, id, uid) ==
    IF id \notin Ids \/ ~tbl[id].present THEN "missing"
    ELSE IF tbl[id].owner # uid THEN "foreign"
    ELSE IF tbl[id].watched THEN "ownWatched" ELSE "ownUnwatched"

(* the request object a handler receives: params, body, session user *)
NewReq(op, s, b) ==
    [IdleReq EXCEPT !.op = op, !.pc = "recv", !.sess = s,
                    !.user = getUserId(s),
                    !.id = b.id, !.rating = b.rr[1], !.review = b.rr[2],
                    !.title = b.title, !.genre = b.genre,
                    !.desireScale = b.desireScale, !.cred = b.cred,
                    !.tok = b.tok, !.email = b.email, !.pw = b.pw,
                    !.token = session[s].token,
                    !.query = b.query, !.tmdbId = b.tmdbId,
                    !.startUnw = /\ op = "markAsWatched"
                                 /\ Target(movies, b.id, getUserId(s)) = "ownUnwatched"]

(* ---- synchronous prefix of each handler (up to its first await) ---- *)
(* addMovie without the check of the session user *)
addMovieEntry_NoUserCheck(r) ==
    IF ~r.title \/ ~r.genre \/ ~Truthy(r.desireScale) THEN Respond(r, 400)
    ELSE [r EXCEPT !.pc = "add_ins"]

addMovieEntry(r) ==
    IF ~r.title \/ ~r.genre \/ ~Truthy(r.desireScale) THEN Respond(r, 400)
    ELSE IF r.user = None THEN Respond(r, 401)
    ELSE [r EXCEPT !.pc = "add_ins"]

removeWatchedMovieEntry(r) ==
    IF r.user = None THEN Respond(r, 401) ELSE [r EXCEPT !.pc = "rm_del"]

postLoginEntry(r) ==
    IF r.cred = None THEN [Respond(r, 200) EXCEPT !.msg = "required"]
    ELSE [r EXCEPT !.pc = "login_auth"]

(* postRegister: both fields required, password of 6 characters or more *)
postRegisterEntry(r) ==
    IF r.email = None \/ r.pw = None THEN [Respond(r, 200) EXCEPT !.msg = "required"]
    ELSE IF r.pw = "short" THEN [Respond(r, 200) EXCEPT !.msg = "short"]
    ELSE [r EXCEPT !.pc = "reg_find"]

(* postUpdateEmail: 400 without e-mail; reading req.session.user.email
   throws when the session has no user (caught: 500) *)
postUpdateEmailEntry(r) ==
    IF r.email = None THEN Respond(r, 400)
    ELSE IF r.user = None THEN Respond(r, 500)
    ELSE [r EXCEPT !.pc = "ue_set"]

postUpdatePasswordEntry(r) ==
    IF r.pw \in {None, "mismatch", "short"} THEN Respond(r, 400)
    ELSE [r EXCEPT !.pc = "up_set"]

postDeleteAccountEntry(r) ==
    IF r.user = None THEN Respond(r, 401) ELSE [r EXCEPT !.pc = "del_clear"]

(* ---- apiController: the routes of the external movie database ---- *)
IsSpace(c) == c = " "
IsDigit(c) == c \in {"0", "6"}

(* String.prototype.trim *)
RECURSIVE trimStart(_)
trimStart(t) == IF t # <<>> /\ IsSpace(Head(t)) THEN trimStart(Tail(t)) ELSE t
RECURSIVE trimEnd(_)
trimEnd(t) ==
    IF t # <<>> /\ IsSpace(t[Len(t)]) THEN trimEnd(SubSeq(t, 1, Len(t) - 1))
    ELSE t
trim(t) == trimEnd(trimStart(t))

(* ToNumber of a string: white space is trimmed, the empty string is 0, and
   otherwise the text must be a decimal literal: an optional sign, digits
   with at most one point, one digit or more *)
DecimalLiteral(t) ==
    LET u == IF t # <<>> /\ Head(t) = "-" THEN Tail(t) ELSE t
    IN /\ \A i \in 1..Len(u) : IsDigit(u[i]) \/ u[i] = "."
       /\ Cardinality({i \in 1..Len(u) : u[i] = "."}) <= 1
       /\ \E i \in 1..Len(u) : IsDigit(u[i])
isNaN(t) == trim(t) # <<>> /\ ~DecimalLiteral(trim(t))

(* !TMDB_API_KEY || TMDB_API_KEY === 'your_tmdb_api_key_here' *)
KeyConfigured(key) == key # None /\ key # Placeholder

(* res.status(code).json({success: false, error: text}) *)
Fail(r, code, text) ==
    [Respond(r, code) EXCEPT !.body = [error |-> text, data |-> None]]

(* the request to the external service: the key travels in the URL *)
Fetch(r, path, key) ==
    [r EXCEPT !.pc = "tmdb_fetch", !.url = [path |-> path, api_key |-> key]]

searchMoviesEntry(r, key) ==
    IF ~r.query.given \/ r.query.text = <<>> \/ trim(r.query.text) = <<>>
    THEN Fail(r, 400, "Search query is required")
    ELSE IF ~KeyConfigured(key) THEN Fail(r, 500, "TMDB API key not configured")
    ELSE Fetch(r, "search/movie", key)

getMovieDetailsEntry(r, key) ==
    IF ~r.tmdbId.given \/ r.tmdbId.text = <<>> \/ isNaN(r.tmdbId.text)
    THEN Fail(r, 400, "Valid movie ID is required")
    ELSE IF ~KeyConfigured(key) THEN Fail(r, 500, "TMDB API key not configured")
    ELSE Fetch(r, "movie", key)

getPopularMoviesEntry(r, key) ==
    IF ~KeyConfigured(key) THEN Fail(r, 500, "TMDB API key not configured")
    ELSE Fetch(r, "movie/popular", key)

Dispatch(r0) ==
    LET r == [r0 EXCEPT !.ran = TRUE] IN
    CASE r.op \in {"getMovies", "getWatchedMovies"} -> [r EXCEPT !.pc = "list_q"]
      [] r.op = "addMovie" -> addMovieEntry(r)
      [] r.op = "markAsWatched" -> [r EXCEPT !.pc = "mw_upd"]
      [] r.op = "removeMovie" -> [r EXCEPT !.pc = "rm_del"]
      [] r.op = "removeWatchedMovie" -> removeWatchedMovieEntry(r)
      [] r.op = "updateReview" -> [r EXCEPT !.pc = "ur_upd"]
      [] r.op = "getLogin" -> Respond(r, 200)
      [] r.op = "postLogin" -> postLoginEntry(r)
      [] r.op = "postLogout" -> [r EXCEPT !.pc = "logout_rev"]
      [] r.op = "postRegister" -> postRegisterEntry(r)
      [] r.op = "postUpdateEmail" -> postUpdateEmailEntry(r)
      [] r.op = "postUpdatePassword" -> postUpdatePasswordEntry(r)
      [] r.op = "postDeleteAccount" -> postDeleteAccountEntry(r)
      [] r.op = "searchMovies" -> searchMoviesEntry(r, TMDB_API_KEY)
      [] r.op = "getMovieDetails" -> getMovieDetailsEntry(r, TMDB_API_KEY)
      [] r.op = "getPopularMovies" -> getPopularMoviesEntry(r, TMDB_API_KEY)

(* ---- middleware of app.js ---- *)
IsApiPath(op) == op \in ApiOps \cup MetaOps
IsUsersPath(op) == op \in UserOps

(* csurf: GET/HEAD/OPTIONS are not checked; otherwise the submitted token
   must verify against the secret bound to the session *)
CsrfValid(op, s, tok) == op \in GetOps \/ tok = CsrfSecret(s)

(* csurf skipped for the /users paths as well *)
csrfProtection_SkipUsers(op, s, tok) ==
    IsApiPath(op) \/ IsUsersPath(op) \/ CsrfValid(op, s, tok)

(* app.js: csurf is skipped for paths under /api/ *)
csrfProtection(op, s, tok) == IsApiPath(op) \/ CsrfValid(op, s, tok)

(* a wall that lets the /api paths through as well *)
AuthWall_ApiOpen(op, s) ==
    IsUsersPath(op) \/ IsApiPath(op) \/ session[s].user # None

(* app.js: /users paths are open, everything else needs req.session.user *)
AuthWall(op, s) == IsUsersPath(op) \/ session[s].user # None

(* sequence bound: an insert that would pass validation needs a free id *)
InFlightInserts == Cardinality({q \in Procs : req[q].pc = "add_ins"})
IdAvailable(r) == r.pc = "add_ins" => nextId + InFlightInserts <= MaxMovies

(* A request arrives at the application: session middleware, csurf,
   authentication wall, router, handler up to its first await. *)
Arrive(p, ops, ss, body) ==
    /\ req[p].pc \in {"idle", "done"}
    /\ \E op \in ops, s \in ss :
       \E b \in body[op] :
         LET r0 == NewReq(op, s, b)
             r == IF ~csrfProtection(op, s, b.tok) THEN Respond(r0, 403)
                  ELSE IF ~AuthWall(op, s) THEN Respond(r0, 302)
                  ELSE Dispatch(r0)
         IN /\ IdAvailable(r)
            /\ req' = [req EXCEPT ![p] = r]
    /\ UNCHANGED <<TMDB_API_KEY, acctVars, movies, nextId, session, mwApplied, createdBy>>

(* A controller function is called directly with a request object. *)
Invoke(p, ops, ss, body) ==
    /\ req[p].pc \in {"idle", "done"}
    /\ \E op \in ops, s \in ss :
       \E b \in body[op] :
         LET r == Dispatch(NewReq(op, s, b))
         IN /\ IdAvailable(r)
            /\ req' = [req EXCEPT ![p] = r]
    /\ UNCHANGED <<TMDB_API_KEY, acctVars, movies, nextId, session, mwApplied, createdBy>>

(* ---- apiController after the await of fetch(url) ---- *)
FailedText(op) ==
    CASE op = "searchMovies" -> "Failed to search movies"
      [] op = "getMovieDetails" -> "Failed to fetch movie details"
      [] OTHER -> "Failed to fetch popular movies"

(* the error object the catch block receives: a FetchError of node-fetch
   quotes the URL of the request, an Error thrown on a bad status does not *)
ErrorOf(r, out) ==
    [message |-> out,
     api_key |-> IF out = "network" THEN r.url.api_key ELSE None]

(* catch block that answers with the text of the error *)
Caught_EchoError(r, out) ==
    [Respond(r, 500) EXCEPT !.logged = ErrorOf(r, out),
                            !.body = [error |-> ErrorOf(r, out).api_key,
                                      data |-> None]]

(* catch (error): console.error(..., error); res.status(500).json(...) *)
Caught(r, out) ==
    [Fail(r, 500, FailedText(r.op)) EXCEPT !.logged = ErrorOf(r, out)]

(* the handler from the resolution of fetch to its response *)
Answer(r, out) ==
    CASE out = "ok" ->
           [Respond(r, 200) EXCEPT !.body = [error |-> None, data |-> "upstream"]]
      [] out = "429" -> Fail(r, 429, "Rate limit exceeded")
      [] out = "404" /\ r.op = "getMovieDetails" -> Fail(r, 404, "Movie not found")
      [] OTHER -> Caught(r, out)

(* fetch that is issued again after a failure of the network *)
TmdbFetch_Retry(p) ==
    LET r == req[p] IN
    /\ r.pc = "tmdb_fetch"
    /\ \E out \in UpstreamIn :
         req' = [req EXCEPT ![p] =
                   IF out = "network" /\ r.calls < 2
                   THEN [r EXCEPT !.calls = r.calls + 1]
                   ELSE Answer([r EXCEPT !.calls = r.calls + 1,
                                         !.upstream = out], out)]
    /\ UNCHANGED <<TMDB_API_KEY, acctVars, movies, nextId, session, mwApplied,
                   createdBy>>

(* const response = await fetch(url): one call of the external service *)
TmdbFetch(p) ==
    LET r == req[p] IN
    /\ r.pc = "tmdb_fetch"
    /\ \E out \in UpstreamIn :
         req' = [req EXCEPT ![p] = Answer([r EXCEPT !.calls = r.calls + 1,
                                                   !.upstream = out], out)]
    /\ UNCHANGED <<TMDB_API_KEY, acctVars, movies, nextId, session, mwApplied,
                   createdBy>>

(* ---------------- movieModel.js ---------------- *)
(* movieModel.getUserId(): with no user id the model falls back to the first
   row of the users table, whichever the store returns *)
EffectiveUsers(userId) == IF userId # None THEN {userId} ELSE Users

(* getAllWatchlistMovies / getAllWatchedMovies: a store error or exception
   answers with the sample movies *)
getAllWatchlistMovies(tbl, uid, fail) ==
    IF fail THEN [ids |-> fallbackWatchlistMovies, fromStore |-> FALSE]
    ELSE [ids |-> SelectRows(tbl, uid, FALSE), fromStore |-> TRUE]

getAllWatchedMovies(tbl, uid, fail) ==
    IF fail THEN [ids |-> fallbackWatchedMovies, fromStore |-> FALSE]
    ELSE [ids |-> SelectRows(tbl, uid, TRUE), fromStore |-> TRUE]

(* addMovie: insert one row with watched = false; null on any error *)
addMovie(tbl, id, uid, ds, fail) ==
    IF fail \/ ~DesireCheck(ds) THEN [ok |-> FALSE, tbl |-> tbl]
    ELSE [ok |-> TRUE,
          tbl |-> [tbl EXCEPT ![id] = [BlankRow EXCEPT !.present = TRUE,
                                          !.owner = uid, !.desireScale = ds]]]

(* markAsWatched matching the id alone and writing the caller as user_id *)
markAsWatched_Reassign(tbl, id, uid, fail) ==
    LET hit == {m \in Ids : tbl[m].present /\ m = id /\ ~tbl[m].watched}
    IN IF fail \/ hit = {} THEN [ok |-> FALSE, tbl |-> tbl]
       ELSE [ok |-> TRUE,
             tbl |-> [m \in Ids |-> IF m \in hit
                                    THEN [tbl[m] EXCEPT !.watched = TRUE,
                                                        !.watchedDate = Today,
                                                        !.owner = uid]
                                    ELSE tbl[m]]]

(* markAsWatched without the .eq('watched', false) condition *)
markAsWatched_AnyState(tbl, id, uid, fail) ==
    IF fail \/ Match(tbl, id, uid) = {} THEN [ok |-> FALSE, tbl |-> tbl]
    ELSE [ok |-> TRUE,
          tbl |-> [m \in Ids |-> IF m \in Match(tbl, id, uid)
                                 THEN [tbl[m] EXCEPT !.watched = TRUE,
                                                     !.watchedDate = Today]
                                 ELSE tbl[m]]]

(* markAsWatched written as a toggle of the watched flag *)
markAsWatched_Toggle(tbl, id, uid, fail) ==
    IF fail \/ Match(tbl, id, uid) = {} THEN [ok |-> FALSE, tbl |-> tbl]
    ELSE [ok |-> TRUE,
          tbl |-> [m \in Ids |-> IF m \in Match(tbl, id, uid)
                                 THEN [tbl[m] EXCEPT !.watched = ~@,
                                                     !.watchedDate = Today]
                                 ELSE tbl[m]]]

(* markAsWatched: conditional update matching (id, user_id, watched=false),
   .single() makes zero matching rows an error; null on any error *)
markAsWatched(tbl, id, uid, fail) ==
    IF fail \/ MatchWatched(tbl, id, uid, FALSE) = {} THEN [ok |-> FALSE, tbl |-> tbl]
    ELSE [ok |-> TRUE,
          tbl |-> [m \in Ids |-> IF m \in MatchWatched(tbl, id, uid, FALSE)
                                 THEN [tbl[m] EXCEPT !.watched = TRUE,
                                                     !.watchedDate = Today]
                                 ELSE tbl[m]]]

(* the object markAsWatched returns, built from the row its update returned:
   rating: data.rating || 0, review: data.review || '' *)
watchedMovie(row) ==
    [watchedDate |-> row.watchedDate,
     rating |-> IF row.rating = Absent THEN 0 ELSE row.rating,
     review |-> IF row.review = None THEN "" ELSE row.review]

(* removeMovie: delete matching (id, user_id); true unless the store errs *)
(* removeMovie without the .eq('user_id', userId) condition *)
removeMovie_ByIdOnly(tbl, id, uid, fail) ==
    IF fail THEN [ok |-> FALSE, tbl |-> tbl]
    ELSE [ok |-> TRUE,
          tbl |-> [m \in Ids |-> IF m = id THEN BlankRow ELSE tbl[m]]]

removeMovie(tbl, id, uid, fail) ==
    IF fail THEN [ok |-> FALSE, tbl |-> tbl]
    ELSE [ok |-> TRUE,
          tbl |-> [m \in Ids |-> IF m \in Match(tbl, id, uid)
                                 THEN BlankRow ELSE tbl[m]]]

(* updateMovieReview without the .eq('watched', true) condition *)
updateMovieReview_AnyState(tbl, id, review, rating, uid, fail) ==
    LET hit == Match(tbl, id, uid)
        bad == hit # {} /\ rating # Absent /\ ~RatingCheck(rating)
    IN IF fail \/ bad THEN [ok |-> FALSE, tbl |-> tbl]
       ELSE [ok |-> TRUE,
             tbl |-> [m \in Ids |->
                        IF m \in hit
                        THEN [tbl[m] EXCEPT
                                !.review = IF review # None THEN review ELSE @,
                                !.rating = IF rating # Absent THEN rating ELSE @]
                        ELSE tbl[m]]]

(* updateMovieReview: update matching (id, user_id, watched=true) with the
   fields that are not undefined; true unless the store errs *)
updateMovieReview(tbl, id, review, rating, uid, fail) ==
    LET hit == MatchWatched(tbl, id, uid, TRUE)
        bad == hit # {} /\ rating # Absent /\ ~RatingCheck(rating)
    IN IF fail \/ bad THEN [ok |-> FALSE, tbl |-> tbl]
       ELSE [ok |-> TRUE,
             tbl |-> [m \in Ids |->
                        IF m \in hit
                        THEN [tbl[m] EXCEPT
                                !.review = IF review # None THEN review ELSE @,
                                !.rating = IF rating # Absent THEN rating ELSE @]
                        ELSE tbl[m]]]

(* ---------------- handler steps (one per await) ---------------- *)
ListQuery(p) ==
    LET r == req[p] IN
    /\ r.pc = "list_q"
    /\ \E uid \in EffectiveUsers(r.user), fail \in BOOLEAN :
         LET res == IF r.op = "getMovies"
                    THEN getAllWatchlistMovies(movies, uid, fail)
                    ELSE getAllWatchedMovies(movies, uid, fail)
         IN req' = [req EXCEPT ![p] = [Respond(r, 200) EXCEPT
                        !.result = res.ids, !.fromStore = res.fromStore,
                        !.err = fail]]
    /\ UNCHANGED <<TMDB_API_KEY, acctVars, movies, nextId, session, mwApplied, createdBy>>

AddInsert(p) ==
    LET r == req[p] IN
    /\ r.pc = "add_ins"
    /\ nextId <= MaxMovies
    /\ \E uid \in EffectiveUsers(r.user), fail \in BOOLEAN :
         LET res == addMovie(movies, nextId, uid, r.desireScale, fail)
         IN /\ movies' = res.tbl
            /\ nextId' = IF res.ok THEN nextId + 1 ELSE nextId
            /\ createdBy' = IF res.ok THEN [createdBy EXCEPT ![nextId] = uid]
                            ELSE createdBy
            /\ req' = [req EXCEPT ![p] =
                         IF res.ok THEN [Respond(r, 200) EXCEPT !.created = nextId]
                         ELSE [Respond(r, 500) EXCEPT !.err = fail]]
    /\ UNCHANGED <<TMDB_API_KEY, acctVars, session, mwApplied>>

(* a handler that applies the rating/review whether or not its own
   transition succeeded *)
MarkUpdate_ReviewAlways(p) ==
    LET r == req[p] IN
    /\ r.pc = "mw_upd"
    /\ \E uid \in EffectiveUsers(r.user), fail \in BOOLEAN :
         LET res == markAsWatched(movies, r.id, uid, fail)
         IN /\ movies' = res.tbl
            /\ mwApplied' = IF res.ok THEN [mwApplied EXCEPT ![r.id] = Inc(@)]
                            ELSE mwApplied
            /\ req' = [req EXCEPT ![p] =
                         LET t == [r EXCEPT !.tgt = Target(movies, r.id, uid),
                                            !.err = fail]
                         IN IF Truthy(r.rating) \/ r.review # None
                            THEN [t EXCEPT !.pc = "mw_rev"]
                            ELSE Respond(t, IF res.ok THEN 200 ELSE 404)]
    /\ UNCHANGED <<TMDB_API_KEY, acctVars, nextId, session, createdBy>>

MarkUpdate(p) ==
    LET r == req[p] IN
    /\ r.pc = "mw_upd"
    /\ \E uid \in EffectiveUsers(r.user), fail \in BOOLEAN :
         LET res == markAsWatched(movies, r.id, uid, fail)
         IN /\ movies' = res.tbl
            /\ mwApplied' = IF res.ok THEN [mwApplied EXCEPT ![r.id] = Inc(@)]
                            ELSE mwApplied
            /\ req' = [req EXCEPT ![p] =
                         LET ret == watchedMovie(res.tbl[r.id])
                             t == [r EXCEPT
                                     !.tgt = Target(movies, r.id, uid),
                                     !.err = fail,
                                     !.retWatched = res.ok /\ ret.watchedDate # None,
                                     !.retRating = IF res.ok THEN ret.rating ELSE @,
                                     !.retReview = IF res.ok THEN ret.review ELSE @]
                         IN IF ~res.ok THEN Respond(t, 404)
                            ELSE IF Truthy(r.rating) \/ r.review # None
                                 THEN [t EXCEPT !.pc = "mw_rev"]
                                 ELSE Respond(t, 200)]
    /\ UNCHANGED <<TMDB_API_KEY, acctVars, nextId, session, createdBy>>

(* a handler that undoes the transition when the review cannot be applied *)
MarkReview_Rollback(p) ==
    LET r == req[p] IN
    /\ r.pc = "mw_rev"
    /\ \E uid \in EffectiveUsers(r.user), fail \in BOOLEAN :
         LET res == updateMovieReview(movies, r.id, r.review, r.rating, uid, fail)
         IN /\ movies' = IF res.ok THEN res.tbl
                         ELSE [movies EXCEPT ![r.id].watched = FALSE,
                                             ![r.id].watchedDate = None]
            /\ req' = [req EXCEPT ![p] =
                         IF res.ok THEN Respond(r, 200)
                         ELSE [Respond(r, 500) EXCEPT !.warn = TRUE]]
    /\ UNCHANGED <<TMDB_API_KEY, acctVars, nextId, session, mwApplied, createdBy>>

MarkReview(p) ==
    LET r == req[p] IN
    /\ r.pc = "mw_rev"
    /\ \E uid \in EffectiveUsers(r.user), fail \in BOOLEAN :
         LET res == updateMovieReview(movies, r.id, r.review, r.rating, uid, fail)
         IN /\ movies' = res.tbl
            /\ req' = [req EXCEPT ![p] = [Respond(r, 200) EXCEPT !.warn = ~res.ok]]
    /\ UNCHANGED <<TMDB_API_KEY, acctVars, nextId, session, mwApplied, createdBy>>

RemoveDelete(p) ==
    LET r == req[p] IN
    /\ r.pc = "rm_del"
    /\ \E uid \in EffectiveUsers(r.user), fail \in BOOLEAN :
         LET res == removeMovie(movies, r.id, uid, fail)
         IN /\ movies' = res.tbl
            /\ req' = [req EXCEPT ![p] =
                         LET t == [r EXCEPT !.tgt = Target(movies, r.id, uid),
                                            !.err = fail]
                         IN IF res.ok THEN Respond(t, 200) ELSE Respond(t, 404)]
    /\ UNCHANGED <<TMDB_API_KEY, acctVars, nextId, session, mwApplied, createdBy>>

ReviewUpdate(p) ==
    LET r == req[p] IN
    /\ r.pc = "ur_upd"
    /\ \E uid \in EffectiveUsers(r.user), fail \in BOOLEAN :
         LET res == updateMovieReview(movies, r.id, r.review, r.rating, uid, fail)
         IN /\ movies' = res.tbl
            /\ req' = [req EXCEPT ![p] =
                         LET t == [r EXCEPT !.tgt = Target(movies, r.id, uid),
                                            !.err = fail]
                         IN IF res.ok THEN Respond(t, 200) ELSE Respond(t, 404)]
    /\ UNCHANGED <<TMDB_API_KEY, acctVars, nextId, session, mwApplied, createdBy>>

(* ---------------- authService.js ---------------- *)
(* why the identity backend rejects a sign-in, None when it accepts *)
Rejection(cred, idn, unv) ==
    IF cred \in Users /\ idn[cred].present THEN None
    ELSE IF cred = "wrongpw" THEN "badPassword"
    ELSE IF cred \in unv THEN "unverified"
    ELSE "unknownEmail"

(* error.message of the identity backend for a rejected sign-in *)
BackendMessage(reason) ==
    IF reason = "unverified" THEN "Email not confirmed"
    ELSE "Invalid login credentials"

(* AuthService.login: success, or the backend's message as result.error *)
login(cred, idn, unv, fail) ==
    IF fail THEN [success |-> FALSE, error |-> "fetch failed"]
    ELSE IF Rejection(cred, idn, unv) # None
    THEN [success |-> FALSE, error |-> BackendMessage(Rejection(cred, idn, unv))]
    ELSE [success |-> TRUE, error |-> None]

(* ---------------- userController.js ---------------- *)
(* postLogin after authService.login: a failure renders the login page with
   result.error; signInWithPassword leaves the shared client signed in *)
LoginAuth(p) ==
    LET r == req[p] IN
    /\ r.pc = "login_auth"
    /\ \E fail \in BOOLEAN :
         LET result == login(r.cred, identity, unverified, fail)
         IN /\ req' = [req EXCEPT ![p] =
                         IF ~result.success
                         THEN [Respond(r, 200) EXCEPT !.err = fail,
                                                      !.msg = result.error]
                         ELSE [r EXCEPT !.pc = "login_save"]]
            /\ client' = IF result.success THEN r.cred ELSE client
    /\ UNCHANGED <<TMDB_API_KEY, identity, unverified, profile, movies, nextId, session,
                   mwApplied, createdBy>>

(* after User.findById: store user and tokens in the session, save, redirect *)
LoginSave(p) ==
    LET r == req[p] IN
    /\ r.pc = "login_save"
    /\ session' = [session EXCEPT ![r.sess] =
                      [user |-> r.cred, email |-> identity[r.cred].email,
                       token |-> r.cred, tokenLive |-> TRUE]]
    /\ req' = [req EXCEPT ![p] = Respond(r, 302)]
    /\ UNCHANGED <<TMDB_API_KEY, acctVars, movies, nextId, mwApplied, createdBy>>

(* postLogout where a failed revoke keeps the session *)
LogoutDestroy_OnlyWhenRevoked(p) ==
    LET r == req[p] IN
    /\ r.pc = "logout_rev"
    /\ \E fail \in BOOLEAN :
         /\ client' = IF fail THEN client ELSE None
         /\ session' = IF fail THEN session
                       ELSE [session EXCEPT ![r.sess] = AnonSession]
         /\ req' = [req EXCEPT ![p] = [Respond(r, 302) EXCEPT !.warn = fail]]
    /\ UNCHANGED <<TMDB_API_KEY, identity, unverified, profile, movies, nextId, mwApplied,
                   createdBy>>

(* postLogout after authService.logout (signOut on the shared client; a
   failure is only logged): destroy the session, redirect *)
LogoutDestroy(p) ==
    LET r == req[p] IN
    /\ r.pc = "logout_rev"
    /\ \E fail \in BOOLEAN :
         /\ client' = IF fail THEN client ELSE None
         /\ session' = [session EXCEPT ![r.sess] = AnonSession]
         /\ req' = [req EXCEPT ![p] = [Respond(r, 302) EXCEPT !.warn = fail]]
    /\ UNCHANGED <<TMDB_API_KEY, identity, unverified, profile, movies, nextId, mwApplied,
                   createdBy>>

(* postRegister after User.findByEmail: a store error reads as "not found" *)
RegisterFind(p) ==
    LET r == req[p]
        existing == \E u \in Users : profile[u].present /\ profile[u].email = r.email
    IN
    /\ r.pc = "reg_find"
    /\ \E fail \in BOOLEAN :
         req' = [req EXCEPT ![p] =
                   IF existing /\ ~fail
                   THEN [Respond(r, 200) EXCEPT !.msg = "exists"]
                   ELSE [r EXCEPT !.pc = "reg_signup", !.err = fail]]
    /\ UNCHANGED <<TMDB_API_KEY, acctVars, movies, nextId, session, mwApplied, createdBy>>

(* postRegister storing the signed-up user in the session *)
RegisterSignUp_AutoLogin(p) ==
    LET r == req[p]
        known == \E u \in Users : identity[u].present /\ identity[u].email = r.email
    IN
    /\ r.pc = "reg_signup"
    /\ \E fail \in BOOLEAN :
         /\ unverified' = IF fail \/ known THEN unverified
                          ELSE unverified \cup {r.email}
         /\ session' = IF fail THEN session
                       ELSE [session EXCEPT ![r.sess] =
                               [user |-> r.email, email |-> r.email,
                                token |-> r.email, tokenLive |-> TRUE]]
         /\ req' = [req EXCEPT ![p] =
                      [Respond(r, 200) EXCEPT
                          !.msg = IF fail THEN "failed" ELSE "registered",
                          !.err = fail]]
    /\ UNCHANGED <<TMDB_API_KEY, identity, client, profile, movies, nextId, mwApplied,
                   createdBy>>

(* postRegister after authService.register (signUp): the new identity waits
   for its e-mail confirmation; the login page is rendered *)
RegisterSignUp(p) ==
    LET r == req[p]
        known == \E u \in Users : identity[u].present /\ identity[u].email = r.email
    IN
    /\ r.pc = "reg_signup"
    /\ \E fail \in BOOLEAN :
         /\ unverified' = IF fail \/ known THEN unverified
                          ELSE unverified \cup {r.email}
         /\ req' = [req EXCEPT ![p] =
                      [Respond(r, 200) EXCEPT
                          !.msg = IF fail THEN "failed" ELSE "registered",
                          !.err = fail]]
    /\ UNCHANGED <<TMDB_API_KEY, identity, client, profile, movies, nextId, session,
                   mwApplied, createdBy>>

(* authService.updateEmail / updatePassword, first part: without an access
   token the service answers a failure at once; otherwise setSession puts the
   token's identity on the shared client, and a session error (network
   failure, expired token) is only a warning *)
SetSession(p) ==
    LET r == req[p] IN
    /\ r.pc \in {"ue_set", "up_set"}
    /\ IF r.token = None
       THEN /\ req' = [req EXCEPT ![p] = [Respond(r, 400) EXCEPT !.msg = "authRequired"]]
            /\ client' = client
       ELSE \E fail \in BOOLEAN :
              /\ client' = IF fail THEN client ELSE r.token
              /\ req' = [req EXCEPT ![p] =
                           [r EXCEPT !.pc = IF r.pc = "ue_set" THEN "ue_upd"
                                            ELSE "up_upd",
                                     !.warn = fail]]
    /\ UNCHANGED <<TMDB_API_KEY, identity, unverified, profile, movies, nextId, session,
                   mwApplied, createdBy>>

(* the identity backend applies updateUser to the identity the shared client
   is signed in as; an e-mail held by another identity is refused *)
updateUser(idn, who, r, fail) ==
    LET taken == \E u \in Users \ {who} : idn[u].present /\ idn[u].email = r.email
        ok == /\ ~fail
              /\ who \in Users
              /\ idn[who].present
              /\ (r.op = "postUpdateEmail" => ~taken)
    IN IF ~ok THEN [success |-> FALSE, idn |-> idn]
       ELSE [success |-> TRUE,
             idn |-> IF r.op = "postUpdateEmail"
                     THEN [idn EXCEPT ![who].email = r.email]
                     ELSE [idn EXCEPT ![who].password = "new"]]

(* authService.updateEmail / updatePassword, second part, and the rest of the
   controller: 400 on failure; on success postUpdateEmail writes the new
   e-mail into req.session.user and saves the session *)
UpdateUser(p) ==
    LET r == req[p] IN
    /\ r.pc \in {"ue_upd", "up_upd"}
    /\ \E fail \in BOOLEAN :
         LET result == updateUser(identity, client, r, fail)
         IN /\ identity' = result.idn
            /\ session' = IF result.success /\ r.pc = "ue_upd"
                          THEN [session EXCEPT ![r.sess].email = r.email]
                          ELSE session
            /\ req' = [req EXCEPT ![p] =
                         [Respond(r, IF result.success THEN 200 ELSE 400)
                            EXCEPT !.upd = TRUE, !.err = fail]]
    /\ UNCHANGED <<TMDB_API_KEY, unverified, client, profile, movies, nextId, mwApplied,
                   createdBy>>

(* postDeleteAccount destroying the session before it clears the movies *)
DeleteClear_DestroyFirst(p) ==
    LET r == req[p] IN
    /\ r.pc = "del_clear"
    /\ session' = [session EXCEPT ![r.sess] = AnonSession]
    /\ req' = [req EXCEPT ![p] = Respond(r, 500)]
    /\ UNCHANGED <<TMDB_API_KEY, acctVars, movies, nextId, mwApplied, createdBy>>

(* a handler whose first step deletes the movies of the user and which then
   fails *)
DeleteClear_ClearThenFail(p) ==
    LET r == req[p] IN
    /\ r.pc = "del_clear"
    /\ movies' = [m \in Ids |-> IF movies[m].present /\ movies[m].owner = r.user
                                 THEN BlankRow ELSE movies[m]]
    /\ req' = [req EXCEPT ![p] = Respond(r, 500)]
    /\ UNCHANGED <<TMDB_API_KEY, acctVars, nextId, session, mwApplied, createdBy>>

(* postDeleteAccount with a session user: movieModel exports no
   clearAllUserMovies, the call throws a TypeError, the catch block answers
   500; authService.deleteAccount, User.delete and session.destroy are not
   reached *)
DeleteClear(p) ==
    LET r == req[p] IN
    /\ r.pc = "del_clear"
    /\ req' = [req EXCEPT ![p] = Respond(r, 500)]
    /\ UNCHANGED <<TMDB_API_KEY, acctVars, movies, nextId, session, mwApplied, createdBy>>

(* time passes beyond the expires_at of the access token a session holds *)
TokenExpire(s) ==
    /\ session[s].token # None
    /\ session[s].tokenLive
    /\ session' = [session EXCEPT ![s].tokenLive = FALSE]
    /\ UNCHANGED <<TMDB_API_KEY, acctVars, movies, nextId, req, mwApplied, createdBy>>

(* time passes beyond the maxAge of the session cookie: the entry is dropped *)
SessionExpire(s) ==
    /\ session[s] # AnonSession
    /\ session' = [session EXCEPT ![s] = AnonSession]
    /\ UNCHANGED <<TMDB_API_KEY, acctVars, movies, nextId, req, mwApplied, createdBy>>

(* ---------------- specifications ---------------- *)
Step(p) ==
    \/ ListQuery(p)
    \/ AddInsert(p)
    \/ MarkUpdate(p)
    \/ MarkReview(p)
    \/ RemoveDelete(p)
    \/ ReviewUpdate(p)
    \/ LoginAuth(p)
    \/ LoginSave(p)
    \/ LogoutDestroy(p)

(* one request at a time through the whole application *)
Next == Arrive("p1", Ops, {"s1"}, [op \in Ops |-> Bodies(op)]) \/ Step("p1")

Spec == Init /\ [][Next]_vars

(* the controllers called directly, one call at a time *)
CtlOps == {"postLogin", "postLogout", "addMovie"}

NextCtl ==
    \/ Invoke("p1", CtlOps, {"s1"}, [op \in CtlOps |-> Bodies(op)])
    \/ LoginAuth("p1")
    \/ LoginSave("p1")
    \/ LogoutDestroy("p1")
    \/ AddInsert("p1")

SpecCtl == Init /\ [][NextCtl]_vars

(* two handlers run concurrently on well-formed requests *)
RaceOps == {"postLogin", "addMovie", "markAsWatched", "removeMovie"}

(* the two clients rate differently *)
RaceRating(p) == IF p = "p1" THEN 4 ELSE 5

RaceBodies(p, op) ==
    {[b EXCEPT !.rr = x] :
        b \in {c \in Bodies(op) :
                 /\ op = "addMovie" => (c.title /\ c.genre /\ c.desireScale = 5)
                 /\ op = "postLogin" => (c.cred = "u1" /\ c.tok = CsrfSecret("s1"))
                 /\ c.rr = <<Absent, None>>},
        x \in IF op = "markAsWatched"
              THEN {<<Absent, None>>, <<RaceRating(p), None>>}
              ELSE {<<Absent, None>>}}

NextRace ==
    \E p \in Procs :
        \/ Arrive(p, RaceOps, {"s1"}, [op \in RaceOps |-> RaceBodies(p, op)])
        \/ LoginAuth(p)
        \/ LoginSave(p)
        \/ AddInsert(p)
        \/ MarkUpdate(p)
        \/ MarkReview(p)
        \/ RemoveDelete(p)

SpecRace == Init /\ [][NextRace]_vars

(* the account routes, one request at a time through the middleware *)
AcctSpecOps == {"postLogin", "postLogout"} \cup AcctOps

NextAcct ==
    \/ Arrive("p1", AcctSpecOps, {"s1"},
              [op \in AcctSpecOps |-> AcctBodies(op)])
    \/ LoginAuth("p1")
    \/ LoginSave("p1")
    \/ LogoutDestroy("p1")
    \/ RegisterFind("p1")
    \/ RegisterSignUp("p1")
    \/ SetSession("p1")
    \/ UpdateUser("p1")
    \/ DeleteClear("p1")

SpecAcct == Init /\ [][NextAcct]_vars

(* sessions over time: tokens and session cookies expire between requests *)
TimeOps == {"postLogin", "postLogout", "getMovies"}

NextTime ==
    \/ Arrive("p1", TimeOps, {"s1"}, [op \in TimeOps |-> Bodies(op)])
    \/ LoginAuth("p1")
    \/ LoginSave("p1")
    \/ LogoutDestroy("p1")
    \/ ListQuery("p1")
    \/ TokenExpire("s1")
    \/ SessionExpire("s1")

SpecTime == Init /\ [][NextTime]_vars

(* the /api routes behind the middleware: the external movie database and
   the watchlist, one request at a time, under any setting of the key *)
MetaSpecOps ==
    {"postLogin", "postLogout", "getMovies", "addMovie", "markAsWatched",
     "removeMovie", "updateReview"} \cup MetaOps

MetaBodies(op) ==
    {b \in Bodies(op) :
        /\ op = "addMovie" => (b.title /\ b.genre /\ b.desireScale = 5)
        /\ op \in {"postLogin", "postLogout"} =>
              (b.cred \in {"u1", None} /\ b.tok = CsrfSecret("s1"))
        /\ b.rr \in {<<Absent, None>>, <<4, None>>, <<6, None>>}}

NextMeta ==
    \/ Arrive("p1", MetaSpecOps, {"s1"},
              [op \in MetaSpecOps |-> MetaBodies(op)])
    \/ LoginAuth("p1")
    \/ LoginSave("p1")
    \/ LogoutDestroy("p1")
    \/ TmdbFetch("p1")
    \/ ListQuery("p1")
    \/ AddInsert("p1")
    \/ MarkUpdate("p1")
    \/ MarkReview("p1")
    \/ RemoveDelete("p1")
    \/ ReviewUpdate("p1")

SpecMeta == InitMeta /\ [][NextMeta]_vars

(* account deletion by users who own movies, one request at a time *)
DelOps == {"postLogin", "postLogout", "addMovie", "removeMovie",
           "postDeleteAccount"}

DelBodies(op) ==
    {b \in Bodies(op) :
        /\ op = "addMovie" => (b.title /\ b.genre /\ b.desireScale = 5)
        /\ op = "postLogin" => b.cred \in Users
        /\ op \in UserOps => b.tok = CsrfSecret("s1")}

NextDel ==
    \/ Arrive("p1", DelOps, {"s1"}, [op \in DelOps |-> DelBodies(op)])
    \/ LoginAuth("p1")
    \/ LoginSave("p1")
    \/ LogoutDestroy("p1")
    \/ AddInsert("p1")
    \/ RemoveDelete("p1")
    \/ DeleteClear("p1")

SpecDel == Init /\ [][NextDel]_vars

(* two users, each with a browser session of their own, use the account
   routes concurrently *)
SharedOps == {"postLogin", "postLogout", "postUpdateEmail",
              "postUpdatePassword", "postDeleteAccount"}
SessOf(p) == IF p = "p1" THEN "s1" ELSE "s2"
UserOf(p) == IF p = "p1" THEN "u1" ELSE "u2"

SharedBodies(p, op) ==
    {b \in Bodies(op) :
        /\ b.tok = CsrfSecret(SessOf(p))
        /\ op = "postLogin" => b.cred = UserOf(p)
        /\ op = "postUpdateEmail" => b.email = "new"
        /\ op = "postUpdatePassword" => b.pw = "ok"}

NextShared ==
    \E p \in Procs :
        \/ Arrive(p, SharedOps, {SessOf(p)},
                  [op \in SharedOps |-> SharedBodies(p, op)])
        \/ LoginAuth(p)
        \/ LoginSave(p)
        \/ LogoutDestroy(p)
        \/ SetSession(p)
        \/ UpdateUser(p)
        \/ DeleteClear(p)

SpecShared == Init /\ [][NextShared]_vars

(* ---------------- properties ---------------- *)
(* the handler of op ran and has answered *)
Done(p, op) == req[p].pc = "done" /\ req[p].op = op /\ req[p].ran
Answered(p) == req[p] # req'[p] /\ req'[p].pc = "done"
RowsOf(tbl) == {m \in Ids : tbl[m].present}
RemoveOps == {"removeMovie", "removeWatchedMovie"}

(* C1: markWatched is a one-way transition. The Unwatched->Watched write is
   applied at most once per movie; a call without store failure succeeds
   exactly when its conditional update found the owned Unwatched row; no two
   calls on one id both succeed; and of two calls that both arrived while the
   movie was Unwatched and owned by the caller, exactly one answers success
   and the other NotFound, the write being applied exactly once. *)
C1_MarkWatchedOneWay ==
    /\ \A m \in Ids : mwApplied[m] <= 1
    /\ \A p \in Procs :
         (Done(p, "markAsWatched") /\ ~req[p].err) =>
            /\ req[p].resp \in {200, 404}
            /\ req[p].resp = 200 <=> req[p].tgt = "ownUnwatched"
    /\ \A p, q \in Procs :
         (p # q /\ Done(p, "markAsWatched") /\ Done(q, "markAsWatched")
              /\ req[p].id = req[q].id) =>
            /\ ~(req[p].resp = 200 /\ req[q].resp = 200)
            /\ (req[p].startUnw /\ req[q].startUnw /\ ~req[p].err /\ ~req[q].err
                  /\ movies[req[p].id].present) =>
                 /\ {req[p].resp, req[q].resp} = {200, 404}
                 /\ mwApplied[req[p].id] = 1

C1_Witness ==
    \E p, q \in Procs :
        /\ p # q /\ Done(p, "markAsWatched") /\ Done(q, "markAsWatched")
        /\ req[p].id = req[q].id /\ req[p].startUnw /\ req[q].startUnw
        /\ ~req[p].err /\ ~req[q].err
        /\ req[p].resp = 200 /\ req[q].resp = 404
        /\ movies[req[p].id].watched

(* C2: a removeMovie or updateReview call against the id of a Movie owned by
   another user fails NotFound. *)
C2_ForeignNotFound ==
    \A p \in Procs :
        (req[p].pc = "done" /\ req[p].op \in RemoveOps \cup {"updateReview"}
            /\ req[p].tgt = "foreign") => req[p].resp = 404

(* C3: a list answered to user B contains only Movies created by B. *)
C3_ListOnlyOwn ==
    \A p \in Procs :
        (req[p].pc = "done" /\ req[p].op \in {"getMovies", "getWatchedMovies"}
            /\ req[p].resp = 200) =>
           \A m \in req[p].result : m \in Ids /\ createdBy[m] = req[p].user

(* C4: a mutating request outside /api/ whose token is missing or differs
   from the session-bound one is answered 403 and its handler never runs:
   the step that answers it changes neither the session store nor the
   movies. *)
BadCsrf(r) == r.op \in UserOps \ GetOps /\ r.tok # CsrfSecret(r.sess)

C4_CsrfForbidden ==
    [][\A p \in Procs :
          (Answered(p) /\ BadCsrf(req'[p])) =>
             /\ req'[p].resp = 403
             /\ ~req'[p].ran
             /\ UNCHANGED <<acctVars, movies, session, nextId>>]_vars

C4_Witness ==
    \E p \in Procs :
        /\ req[p].pc = "done" /\ BadCsrf(req[p]) /\ req[p].resp = 403
        /\ session[req[p].sess].user # None
        /\ RowsOf(movies) # {}

(* C5: updateReview fails NotFound unless the row (id, owner, watched=true)
   exists. *)
C5_ReviewNeedsWatched ==
    \A p \in Procs :
        (Done(p, "updateReview")
            /\ req[p].tgt \in {"missing", "foreign", "ownUnwatched"}) =>
            req[p].resp = 404

(* C6: removeMovie deletes the owned Movie in either state and fails
   NotFound when no row matches (id, owner). *)
C6_RemoveOrNotFound ==
    \A p \in Procs :
        (req[p].pc = "done" /\ req[p].op \in RemoveOps /\ req[p].tgt # None
            /\ ~req[p].err) =>
           IF req[p].tgt \in {"ownUnwatched", "ownWatched"}
           THEN req[p].resp = 200 /\ ~movies[req[p].id].present
           ELSE req[p].resp = 404

(* C7: addMovie answers 400 and creates no Movie when title, genre or
   desireScale is absent or desireScale is outside 1..5; desireScale 1 and 5
   are accepted. *)
ValidAdd(r) ==
    r.title /\ r.genre /\ r.desireScale # Absent
        /\ r.desireScale >= 1 /\ r.desireScale <= 5

C7_AddValidation ==
    \A p \in Procs :
        Done(p, "addMovie") =>
           /\ ~ValidAdd(req[p]) => (req[p].resp = 400 /\ req[p].created = 0)
           /\ (ValidAdd(req[p]) /\ ~req[p].err /\ req[p].user # None) =>
                 req[p].resp = 200

(* C8 as stated: a successful addMovie creates one Unwatched Movie owned by
   the caller, and addMovie with an absent ownerId answers 401 and creates
   no Movie. *)
C8_AbsentOwnerAlways401 ==
    \A p \in Procs :
        Done(p, "addMovie") =>
           /\ req[p].resp = 200 =>
                /\ req[p].created \in RowsOf(movies)
                /\ movies[req[p].created].owner = req[p].user
                /\ ~movies[req[p].created].watched
           /\ req[p].user = None => (req[p].resp = 401 /\ req[p].created = 0)

(* C8 amended: the step that answers addMovie with success adds exactly one
   row, Unwatched and owned by the caller's session identity, and changes no
   other row; every other answer leaves the table unchanged. With an absent
   ownerId no Movie is created; the answer is 401 when title, genre and
   desireScale are present and 400 otherwise. *)
C8_AddCreatesOwnedUnwatched ==
    [][\A p \in Procs :
          (Answered(p) /\ req'[p].op = "addMovie" /\ req'[p].ran) =>
             /\ IF req'[p].resp = 200
                THEN /\ req'[p].user # None
                     /\ \E m \in Ids :
                          /\ ~movies[m].present
                          /\ movies'[m].present
                          /\ movies'[m].owner = req'[p].user
                          /\ ~movies'[m].watched
                          /\ \A n \in Ids \ {m} : movies'[n] = movies[n]
                ELSE movies' = movies
             /\ req'[p].user = None =>
                  /\ movies' = movies
                  /\ req'[p].resp =
                       IF req'[p].title /\ req'[p].genre
                            /\ Truthy(req'[p].desireScale)
                       THEN 401 ELSE 400]_vars

C8_Witness ==
    \E p \in Procs :
        /\ Done(p, "addMovie") /\ req[p].user = None /\ req[p].resp = 401
        /\ \E m \in RowsOf(movies) : ~movies[m].watched

(* C9: every Movie that is Unwatched has no watchedDate, rating or review,
   and every Movie that is Watched has a watchedDate. *)
C9_WatchedFields ==
    \A m \in RowsOf(movies) :
        /\ ~movies[m].watched =>
              /\ movies[m].watchedDate = None
              /\ movies[m].rating = Absent
              /\ movies[m].review = None
        /\ movies[m].watched => movies[m].watchedDate # None

C9_Witness ==
    \E p \in Procs :
        /\ Done(p, "updateReview") /\ req[p].tgt = "ownUnwatched"
        /\ Truthy(req[p].rating) /\ ~req[p].err
        /\ movies[req[p].id].present /\ ~movies[req[p].id].watched

(* C10: a Movie that is Watched stays Watched in every step that does not
   delete it. *)
C10_NoUnwatch ==
    [][\A m \in Ids :
          (movies[m].present /\ movies[m].watched /\ movies'[m].present) =>
             movies'[m].watched]_vars

C10_Witness ==
    \E p \in Procs :
        /\ Done(p, "markAsWatched") /\ req[p].tgt = "ownWatched"
        /\ ~req[p].err /\ req[p].resp = 404
        /\ movies[req[p].id].present /\ movies[req[p].id].watched

(* C11: no step changes the owner of a Movie that exists before and after
   the step. *)
C11_OwnerImmutable ==
    [][\A m \in Ids :
          (movies[m].present /\ movies'[m].present) =>
             movies'[m].owner = movies[m].owner]_vars

C11_Witness ==
    \E p \in Procs :
        /\ Done(p, "markAsWatched") /\ req[p].tgt = "foreign" /\ ~req[p].err
        /\ movies[req[p].id].present
        /\ movies[req[p].id].owner = createdBy[req[p].id]
        /\ movies[req[p].id].owner # req[p].user

(* C12: a markWatched call that succeeds with a rating r and no review
   returns a movie that is Watched, with rating r and no review. *)
C12_ReturnedMovieHasRating ==
    \A p \in Procs :
        (Done(p, "markAsWatched") /\ req[p].resp = 200
            /\ Truthy(req[p].rating) /\ req[p].review = None /\ ~req[p].warn) =>
           /\ req[p].retWatched
           /\ req[p].retRating = req[p].rating
           /\ req[p].retReview = None

(* C13: every login the identity backend rejects (password mismatch, unknown
   e-mail, unverified account) is answered with the same response. *)
C13_LoginUniform ==
    \A p \in Procs :
        (Done(p, "postLogin") /\ req[p].cred # None /\ ~req[p].err
            /\ req[p].resp = 200) =>
           req[p].msg = BackendMessage("badPassword")

(* C14: a session that carries no identity and no tokens gets them only in
   the step that completes a login the identity backend accepted; the steps
   of register and of a failed login leave the session store unchanged. *)
C14_OnlyLoginAuthenticates ==
    [][/\ \A s \in Sess :
            (session[s] = AnonSession /\ session'[s] # AnonSession) =>
               \E p \in Procs :
                  /\ req[p].op = "postLogin" /\ req[p].pc = "login_save"
                  /\ req[p].sess = s /\ req[p].cred \in Users
                  /\ session'[s].user = req[p].cred
                  /\ req'[p].resp = 302
       /\ \A p \in Procs :
            (Answered(p) /\ (req'[p].op = "postRegister"
                               \/ (req'[p].op = "postLogin" /\ req'[p].resp # 302))) =>
               session' = session]_vars

C14_Witness ==
    \E p \in Procs :
        /\ Done(p, "postRegister") /\ req[p].msg = "registered"
        /\ req[p].email \in unverified
        /\ session[req[p].sess] = AnonSession

(* C15: the step that answers a logout leaves the session without identity
   and tokens and answers with the redirect, also when the revoke of the
   remote token failed and also when the session was anonymous. *)
C15_LogoutDestroys ==
    [][\A p \in Procs :
          (Answered(p) /\ req'[p].op = "postLogout" /\ req'[p].ran) =>
             /\ session'[req'[p].sess] = AnonSession
             /\ req'[p].resp = 302]_vars

C15_Witness ==
    \E p \in Procs :
        /\ Done(p, "postLogout") /\ req[p].warn /\ req[p].user # None
        /\ req[p].resp = 302
        /\ session[req[p].sess] = AnonSession

(* C16: updateEmail and updatePassword with well-formed input on a session
   that holds no access token answer Unauthenticated (401), and the identity
   backend's update operation is not invoked. *)
C16_NoTokenUnauthenticated ==
    \A p \in Procs :
        (/\ req[p].pc = "done" /\ req[p].ran /\ req[p].token = None
         /\ \/ req[p].op = "postUpdateEmail" /\ req[p].email # None
            \/ req[p].op = "postUpdatePassword" /\ req[p].pw = "ok") =>
           /\ req[p].resp = 401
           /\ ~req[p].upd

(* C17: the step that answers updateEmail with success leaves the new e-mail
   in the caller's row of the table users and in the session's user copy;
   the step that answers it with a failure changes neither. *)
C17_EmailRefreshed ==
    [][\A p \in Procs :
          (Answered(p) /\ req'[p].op = "postUpdateEmail" /\ req'[p].ran) =>
             IF req'[p].resp = 200
             THEN /\ profile'[req'[p].user].email = req'[p].email
                  /\ session'[req'[p].sess].email = req'[p].email
             ELSE /\ profile' = profile
                  /\ session' = session]_vars

(* C18: the step that answers deleteAccount with a failure leaves the session
   store unchanged: the caller's session keeps its identity and tokens. *)
C18_FailedDeleteKeepsSession ==
    [][\A p \in Procs :
          (Answered(p) /\ req'[p].op = "postDeleteAccount" /\ req'[p].ran
              /\ req'[p].resp # 200) =>
             /\ session' = session
             /\ session'[req'[p].sess].user = req'[p].user
             /\ session'[req'[p].sess].token = req'[p].token]_vars

C18_Witness ==
    \E p \in Procs :
        /\ Done(p, "postDeleteAccount") /\ req[p].resp = 500
        /\ req[p].user # None /\ req[p].token # None
        /\ session[req[p].sess].user = req[p].user
        /\ session[req[p].sess].token = req[p].token

(* C19: deleteAccount by an authenticated user holding an access token
   succeeds; afterwards the user owns no Movie row, the identity is gone from
   the identity backend, the row of the table users is gone and the session
   is destroyed. *)
C19_DeleteAccountDeletesAll ==
    \A p \in Procs :
        (Done(p, "postDeleteAccount") /\ req[p].user # None
            /\ req[p].token # None) =>
           /\ req[p].resp = 200
           /\ \A m \in RowsOf(movies) : movies[m].owner # req[p].user
           /\ ~identity[req[p].user].present
           /\ ~profile[req[p].user].present
           /\ session[req[p].sess] = AnonSession

(* C20: a request behind the authentication wall that arrives on a session
   whose access token has expired is refused: it is redirected to the login
   page and its handler does not run. *)
C20_ExpiredTokenRefused ==
    [][\A p \in Procs :
          (/\ req[p].pc \in {"idle", "done"} /\ req'[p] # req[p]
           /\ req'[p].op \in ApiOps
           /\ ~session[req'[p].sess].tokenLive) =>
             /\ req'[p].resp = 302
             /\ ~req'[p].ran]_vars

(* C21: a request for a watchlist route or for a route of the external movie
   database whose session carries no user is answered by the authentication
   wall with the redirect to the login page: its handler never runs, no store
   step and no call of the external service is made for it. *)
C21_WallStopsAnonymous ==
    \A p \in Procs :
        (/\ req[p].op \in ApiOps \cup MetaOps
         /\ req[p].user = None)
        => /\ req[p].pc = "done"
           /\ req[p].resp = 302
           /\ ~req[p].ran
           /\ req[p].calls = 0
           /\ req[p].url.api_key = None

(* both kinds of route have been refused once: a lookup of the external
   database (with a well-formed query and a configured key) and an add *)
C21_Witness ==
    /\ req["p1"].op = "searchMovies"
    /\ req["p1"].query = Text(<<"m">>)
    /\ KeyConfigured(TMDB_API_KEY)
    /\ req["p1"].user = None
    /\ req["p1"].resp = 302
    /\ session["s1"].user = None

(* an identifier of the external database: digits only, one or more *)
IdShape(t) == t.given /\ t.text # <<>> /\ \A i \in 1..Len(t.text) : IsDigit(t.text[i])
BlankQuery(q) == ~q.given \/ \A i \in 1..Len(q.text) : IsSpace(q.text[i])
InvalidMetaInput(r) ==
    \/ r.op = "searchMovies" /\ BlankQuery(r.query)
    \/ r.op = "getMovieDetails" /\ ~IdShape(r.tmdbId)

(* C23: a search with an empty or blank query, and a lookup by an id that is
   not of the shape of an identifier, are answered 400 and no call of the
   external service is issued for them. *)
C23_InvalidInputRejected ==
    \A p \in Procs :
        (req[p].ran /\ InvalidMetaInput(req[p]))
        => /\ req[p].pc = "done"
           /\ req[p].resp = 400
           /\ req[p].calls = 0
           /\ req[p].url.api_key = None

(* the failures of the external service other than the exhausted rate limit *)
OtherFailures == {"404", "500", "network", "badjson"}
Unavailable == {500, 502}

(* C24 as stated: for all three routes a rate-limit answer of the external
   service yields 429, every other failure of it yields 500/502, and one
   request issues at most one call. *)
C24_AllOtherFailuresUnavailable ==
    \A p \in Procs :
        req[p].op \in MetaOps
        => /\ req[p].calls <= 1
           /\ req[p].upstream = "429" => req[p].resp = 429
           /\ req[p].upstream \in OtherFailures => req[p].resp \in Unavailable

(* C24: as above, except that the lookup by id answers 404 when the external
   service reports 404. *)
C24_FailureContract ==
    \A p \in Procs :
        req[p].op \in MetaOps
        => /\ req[p].calls <= 1
           /\ req[p].upstream = "429" => req[p].resp = 429
           /\ (req[p].upstream = "404" /\ req[p].op = "getMovieDetails")
                 => req[p].resp = 404
           /\ (/\ req[p].upstream \in OtherFailures
               /\ ~(req[p].upstream = "404" /\ req[p].op = "getMovieDetails"))
                 => req[p].resp \in Unavailable

(* a lookup by id has been answered after the one call reported 404 *)
C24_Witness ==
    /\ req["p1"].op = "getMovieDetails"
    /\ req["p1"].pc = "done"
    /\ req["p1"].upstream = "404"
    /\ req["p1"].calls = 1
    /\ req["p1"].resp = 404

(* what the caller receives: status and JSON body *)
ResponseOf(r) == [status |-> r.resp, body |-> r.body]

(* the same request, served with the key set to key, the external service
   behaving as it did *)
Replay(r, key) ==
    LET e == CASE r.op = "searchMovies" -> searchMoviesEntry(r, key)
               [] r.op = "getMovieDetails" -> getMovieDetailsEntry(r, key)
               [] OTHER -> getPopularMoviesEntry(r, key)
    IN IF e.pc = "done" THEN e ELSE Answer(e, r.upstream)

(* C25: the response of a route of the external movie database does not
   depend on the value of the key: with any other key (configured like the
   actual one, or missing like it) the same request with the same outcome of
   the external service receives the same status and body, and no field of
   the body is the key. *)
C25_KeyNotReadable ==
    \A p \in Procs :
        (req[p].op \in MetaOps /\ req[p].ran /\ req[p].pc = "done")
        => /\ \A k \in KeyIn :
                 KeyConfigured(k) = KeyConfigured(TMDB_API_KEY)
                 => ResponseOf(Replay(req[p], k)) = ResponseOf(req[p])
           /\ KeyConfigured(TMDB_API_KEY)
                 => /\ req[p].body.error # TMDB_API_KEY
                    /\ req[p].body.data # TMDB_API_KEY

(* a search failed in the network: the error object quotes the URL with the
   key, the answer is the fixed text *)
C25_Witness ==
    /\ req["p1"].op = "searchMovies"
    /\ req["p1"].pc = "done"
    /\ req["p1"].upstream = "network"
    /\ KeyConfigured(TMDB_API_KEY)
    /\ req["p1"].logged.api_key = TMDB_API_KEY
    /\ req["p1"].resp = 500
    /\ req["p1"].body.error = FailedText("searchMovies")

(* C26: when markWatched has made the transition and the update that applies
   the rating/review fails, the call still answers success, the failure is
   logged as a warning, and the movie is left as the transition made it:
   present, Watched, rating and review unset. *)
C26_ReviewFailureKeepsTransition ==
    [][\A p \in Procs :
         (req[p].pc = "mw_rev" /\ req'[p].pc = "done" /\ req'[p].warn)
         => /\ req'[p].resp = 200
            /\ movies' = movies
            /\ movies'[req[p].id].present
            /\ movies'[req[p].id].owner = req[p].user
            /\ movies'[req[p].id].watched
            /\ movies'[req[p].id].rating = Absent
            /\ movies'[req[p].id].review = None]_vars

(* a markWatched with a rating outside 1..5 has answered success with the
   warning logged, and the movie is Watched without a rating *)
C26_Witness ==
    /\ Done("p1", "markAsWatched")
    /\ req["p1"].rating = 6
    /\ req["p1"].warn
    /\ ~req["p1"].err
    /\ req["p1"].resp = 200
    /\ movies[req["p1"].id].watched
    /\ movies[req["p1"].id].rating = Absent

(* C27: a list request whose store query failed is answered with an error
   (500/502), and no list request answers success with movies that did not
   come from the store. *)
C27_ListFailureSurfaced ==
    \A p \in Procs :
        (req[p].pc = "done" /\ req[p].ran
            /\ req[p].op \in {"getMovies", "getWatchedMovies"})
        => /\ req[p].err => req[p].resp \in Unavailable
           /\ req[p].resp = 200 => req[p].fromStore

(* the request names a present movie of another user *)
ForeignCall(r) ==
    /\ r.op \in IdOps
    /\ r.user # None
    /\ r.id \in Ids
    /\ movies[r.id].present
    /\ movies[r.id].owner # r.user

(* C28: no step of a markWatched, removeMovie or updateReview request made
   by a user on a movie owned by another user changes that movie: it stays
   present with every field as it was. *)
C28_ForeignCallChangesNothing ==
    [][\A p \in Procs :
         (req[p].pc \notin {"idle", "done"} /\ ForeignCall(req[p])
            /\ req'[p] # req[p])
         => movies'[req[p].id] = movies[req[p].id]]_vars

(* u2 has been answered on a remove of the movie u1 created; it is there *)
C28_Witness ==
    /\ Done("p1", "removeMovie")
    /\ req["p1"].user = "u2"
    /\ ~req["p1"].err
    /\ movies[req["p1"].id].present
    /\ movies[req["p1"].id].owner = "u1"

(* C30: when markWatched calls race on one movie, a rating or review is
   written to it only by the call whose conditional update made the
   transition, and the value written is that call's own; the call that is
   answered NotFound ends there and writes nothing. *)
C30_WinnerWritesReview ==
    [][/\ \A m \in Ids :
            (/\ movies[m].present /\ movies'[m].present
             /\ \/ movies'[m].rating # movies[m].rating
                \/ movies'[m].review # movies[m].review)
            => \E p \in Procs :
                  /\ req[p].pc = "mw_rev" /\ req'[p].pc = "done"
                  /\ req[p].id = m
                  /\ req[p].retWatched
                  /\ movies'[m].rating = req[p].rating
                  /\ movies'[m].watched
       /\ \A p \in Procs :
            (req[p].pc = "mw_upd" /\ req'[p] # req[p] /\ ~req'[p].retWatched)
            => /\ req'[p].pc = "done"
               /\ req'[p].resp = 404
               /\ movies' = movies]_vars

(* both calls arrived while the movie was Unwatched; p1 won and its rating
   is stored, p2 was answered NotFound *)
C30_Witness ==
    /\ Done("p1", "markAsWatched") /\ Done("p2", "markAsWatched")
    /\ req["p1"].id = req["p2"].id
    /\ req["p1"].startUnw /\ req["p2"].startUnw
    /\ req["p1"].rating = 4 /\ req["p2"].rating = 5
    /\ req["p1"].resp = 200 /\ req["p2"].resp = 404
    /\ ~req["p2"].err
    /\ movies[req["p1"].id].rating = 4

(* C29: no step of a deleteAccount request that does not answer success
   changes a movie: when the call reports failure, the movies of the caller
   (and of everybody else) are as they were. *)
C29_FailedDeleteKeepsMovies ==
    [][\A p \in Procs :
         (/\ req'[p] # req[p]
          /\ req'[p].op = "postDeleteAccount"
          /\ ~(req'[p].pc = "done" /\ req'[p].resp = 200))
         => movies' = movies]_vars

(* a signed-in owner of a movie asked for the deletion, was answered 500,
   and the movie is still there *)
C29_Witness ==
    /\ Done("p1", "postDeleteAccount")
    /\ req["p1"].user # None
    /\ req["p1"].resp = 500
    /\ \E m \in Ids : movies[m].present /\ movies[m].owner = req["p1"].user
    /\ identity[req["p1"].user].present

(* C22: the update an updateEmail or updatePassword request makes at the
   identity backend is made to the identity of the user whose access token
   the request carries: the identity of every other user is unchanged by
   that step, under every interleaving with the other user's requests. *)
C22_MutationAppliesToOwnIdentity ==
    [][\A p \in Procs :
         (req[p].pc \in {"ue_upd", "up_upd"} /\ req'[p].upd)
         => \A u \in Users :
               u # req[p].token => identity'[u] = identity[u]]_vars

====
